---------------------------- MODULE Spec2Model ----------------------------
(***************************************************************************)
(* Model of the recommendation subsystem of musicbud:                      *)
(*   ai/recommendation_engine.py           RecommendationEngine            *)
(*   app/services/recommendation_cache.py  RecommendationCache + decorator *)
(*   app/services/recommendation_service.py RecommendationService          *)
(*                                                                         *)
(* Conventions.  Python's None is the record NoPart (kind "none") for a    *)
(* missing dict entry.  Python indices are 0-based, positions here are     *)
(* 1-based.  A dict built by enumerate() over first-seen ids is the        *)
(* sequence of its keys in index order.  -inf is the number NegInf, which  *)
(* is below every score the model can produce.                             *)
(***************************************************************************)
EXTENDS Integers, Sequences, FiniteSets, TLC

VARIABLES
    \* ---- RecommendationEngine (one process) ----
    lightfm_available,      \* LIGHTFM_AVAILABLE, fixed at import
    tie_break,              \* how this build's np.argsort orders equal keys
    models,                 \* self.models
    user_id_mappings,       \* self.user_id_mappings
    item_id_mappings,       \* self.item_id_mappings
    interaction_matrices,   \* self.interaction_matrices
    disk,                   \* the four .pkl files of each content type
    runs,                   \* number of training runs started so far
    ret,                    \* what the last engine call returned
    \* ---- a training thread and a serving thread of the same process ----
    pcT,                    \* the line of train_model the trainer is at
    tloc,                   \* the trainer's locals
    pcR,                    \* the line of get_recommendations the reader is at
    rd,                     \* the reader's locals
    \* ---- RecommendationCache and RecommendationService ----
    use_django_cache,       \* RecommendationCache.use_django_cache
    scope,                  \* the content types and users this behaviour serves
    memory_cache,           \* RecommendationCache.memory_cache: key -> list
    django_cache,           \* django.core.cache.cache, the shared tier: key -> list
    svc,                    \* what the last service or cache call did
    pending_invalidations,  \* users invalidated and not served since
    quiet,                  \* no invalidate / clear_all since the last served call
    calls,                  \* get_<type>_recommendations calls so far
    \* ---- RecommendationCache called directly ----
    cop,                    \* what the last cache operation did
    last_set,               \* key -> list last given to set, no invalidation since
    stale,                  \* keys whose ttl has run out since they were last set
    \* ---- the training entry points ----
    job,                    \* the training request in progress or last finished
    \* ---- requests as coroutines of one server ----
    deployment,             \* how the server runs its requests
    tasks,                  \* request -> where its coroutine is
    busy                    \* the request that is inside a synchronous engine call

engineVars == <<lightfm_available, tie_break, models, user_id_mappings,
                item_id_mappings, interaction_matrices, disk, runs, ret>>

concVars == <<pcT, tloc, pcR, rd>>

configVars == <<use_django_cache, scope>>

cacheVars == <<configVars, memory_cache, django_cache>>

serviceVars == <<svc, pending_invalidations, quiet, calls>>

cacheApiVars == <<cop, last_set, stale>>

trainingVars == <<job>>

loopVars == <<deployment, tasks, busy>>

extraVars == <<cacheApiVars, trainingVars, loopVars>>

nonEngineVars == <<concVars, cacheVars, serviceVars, extraVars>>

vars == <<engineVars, nonEngineVars>>

-----------------------------------------------------------------------------
(* Bounds of the model *)

MaxLen == 3
MaxRuns == 2
MaxN == 2
MaxScore == 2

(* Program constants *)

Liked == 5
Watched == 3
NegInf == 0

ContentTypes == {"movie", "manga", "anime"}

\* The content type the engine runs exercise: the engine keeps one dict
\* entry per content type and never reads another type's entry.
EngineTypes == {"movie"}

Users == {"u1", "u2"}
Items == {"i1", "i2"}

\* The interaction store the extractor reads: triples (user, item, rating).
TripleUniverse == {<<"u1", "i1", Liked>>, <<"u2", "i2", Liked>>, <<"u1", "i2", Watched>>}

SeqsUpTo(S, k) == UNION {[1..m -> S] : m \in 0..k}

InteractionLists == SeqsUpTo(TripleUniverse, MaxLen)

ScoreVals == 1..MaxScore

TieBreaks == {"first_seen", "last_seen"}

-----------------------------------------------------------------------------
(* Helpers *)

Range(s) == {s[k] : k \in DOMAIN s}

Min(a, b) == IF a <= b THEN a ELSE b

\* a slice that is one too long
Take_OneMore(s, k) == SubSeq(s, 1, Min(k + 1, Len(s)))

\* s[:k]
Take(s, k) == SubSeq(s, 1, Min(k, Len(s)))

\* position of x in the sequence s (x occurs in s)
IndexOf(s, x) == CHOOSE k \in DOMAIN s : s[k] = x

RECURSIVE SeqSum(_)
SeqSum(s) == IF s = <<>> THEN 0 ELSE s[1] + SeqSum(Tail(s))

RECURSIVE SelectSeq2(_, _)
\* the subsequence of the elements of s that are in the set S
SelectSeq2(s, S) ==
    IF s = <<>> THEN <<>>
    ELSE (IF s[1] \in S THEN <<s[1]>> ELSE <<>>) \o SelectSeq2(Tail(s), S)

RECURSIVE Unique(_)
\* pandas Series.unique(): the distinct values in order of first appearance
Unique(s) ==
    IF s = <<>> THEN <<>>
    ELSE LET init == Unique(SubSeq(s, 1, Len(s) - 1))
             last == s[Len(s)]
         IN  IF last \in Range(init) THEN init ELSE Append(init, last)

-----------------------------------------------------------------------------
(* Sorting.  np.argsort(-x) with the default kind ("quicksort") is not a    *)
(* stable sort: the relative order of equal keys is an artefact of the sort *)
(* routine of the build (introsort above 16 elements, SIMD sorts on recent  *)
(* builds).  It is a function of the input all the same, so the model fixes *)
(* one tie order per behaviour in tie_break.  sorted(..., reverse=True) and *)
(* heapq.nlargest are stable: equal keys keep their first-seen order.       *)

Before(key, tb, a, b) ==
    \/ key[a] > key[b]
    \/ /\ key[a] = key[b]
       /\ IF tb = "first_seen" THEN a <= b ELSE a >= b

RECURSIVE SortDesc(_, _, _)
\* the elements of the set S of positions, by descending key
SortDesc(S, key, tb) ==
    IF S = {} THEN <<>>
    ELSE LET best == CHOOSE a \in S : \A b \in S : Before(key, tb, a, b)
         IN  <<best>> \o SortDesc(S \ {best}, key, tb)

\* np.argsort(-key)[:n] over an array of length len
ArgsortDesc(key, len, n, tb) == Take(SortDesc(1..len, key, tb), n)

-----------------------------------------------------------------------------
(* RecommendationEngine: stored parts *)

\* a dict entry that is absent
NoPart == [kind |-> "none", run |-> 0, data |-> <<>>]

\* an entry written by training run r from the interaction list L; what the
\* entry holds is computed from L by the operators below
Part(k, r, L) == [kind |-> k, run |-> r, data |-> L]

\* an unreadable .pkl file
Corrupt == [kind |-> "corrupt", run |-> 0, data |-> <<>>]

NoFiles == [model |-> NoPart, user_map |-> NoPart, item_map |-> NoPart, matrix |-> NoPart]

\* an entry that keeps one rating of a coordinate instead of their sum
SumWhere_KeepsOne(L, u, i) ==
    IF \E k \in DOMAIN L : L[k][1] = u /\ L[k][2] = i
    THEN L[CHOOSE k \in DOMAIN L : L[k][1] = u /\ L[k][2] = i][3]
    ELSE 0

RECURSIVE SumWhere(_, _, _)
\* the summed rating of the triples of L with user u and item i
SumWhere(L, u, i) ==
    IF L = <<>> THEN 0
    ELSE (IF L[1][1] = u /\ L[1][2] = i THEN L[1][3] ELSE 0) + SumWhere(Tail(L), u, i)

create_interaction_matrix(L) ==
    IF L = <<>>
    THEN [shape |-> <<1, 1>>, data |-> [rc \in {} |-> 0],
          user_id_map |-> <<>>, item_id_map |-> <<>>]
    ELSE LET unique_users == Unique([k \in DOMAIN L |-> L[k][1]])
             unique_items == Unique([k \in DOMAIN L |-> L[k][2]])
             stored == {<<IndexOf(unique_users, L[k][1]), IndexOf(unique_items, L[k][2])>> :
                          k \in DOMAIN L}
         IN  [shape |-> <<Len(unique_users), Len(unique_items)>>,
              \* coo -> csr sums the entries that share a coordinate
              data |-> [rc \in stored |-> SumWhere(L, unique_users[rc[1]], unique_items[rc[2]])],
              user_id_map |-> unique_users,
              item_id_map |-> unique_items]

\* self.user_id_mappings.get(content_type, {})
UserMapOf(p) == IF p.kind = "user_map" THEN create_interaction_matrix(p.data).user_id_map ELSE <<>>

\* self.item_id_mappings.get(content_type, {})
ItemMapOf(p) == IF p.kind = "item_map" THEN create_interaction_matrix(p.data).item_id_map ELSE <<>>

\* the csr matrix of a stored matrix entry
MatrixOf(p) == create_interaction_matrix(p.data)

\* the rows stored in a column, taken for the columns stored in a row
RowIndices_Transposed(m, row) == {rc[1] : rc \in {x \in DOMAIN m.data : x[2] = row}}

\* matrix[row].indices: the columns stored in a row
RowIndices(m, row) == {rc[2] : rc \in {x \in DOMAIN m.data : x[1] = row}}

\* np.array(matrix.sum(axis=0)).flatten()
ColumnSums(m) ==
    [c \in 1..m.shape[2] |->
        SeqSum([r \in 1..m.shape[1] |-> IF <<r, c>> \in DOMAIN m.data THEN m.data[<<r, c>>] ELSE 0])]

\* the embedding tables of a fitted LightFM model: one row per user/item of
\* the matrix it was fitted on
NUsers(model) == create_interaction_matrix(model.data).shape[1]
NItems(model) == create_interaction_matrix(model.data).shape[2]

\* what a call returns: a list, or an exception that leaves the call
Returned(v, p) == [raised |-> FALSE, value |-> v, path |-> p]
Raised(p) == [raised |-> TRUE, value |-> <<>>, path |-> p]

-----------------------------------------------------------------------------
(* RecommendationEngine: serving, as functions of the stored parts *)

\* a popularity listing that does not look at the stored interactions
PopularItems_IgnoresStored(lfm, tb, matrixPart, itemMapPart, n, p) == Returned(<<>>, p)

\* get_popular_items over the entries matrixPart and itemMapPart
PopularItems(lfm, tb, matrixPart, itemMapPart, n, p) ==
    IF matrixPart.kind = "none" THEN Returned(<<>>, p)
    ELSE IF lfm /\ matrixPart.kind = "csr"
    THEN LET item_map == ItemMapOf(itemMapPart)
             item_popularity == ColumnSums(MatrixOf(matrixPart))
             top_indices == ArgsortDesc(item_popularity, Len(item_popularity), n, tb)
         IN  \* item_id_reverse_map[idx] is a KeyError for a column with no id
             IF \E k \in DOMAIN top_indices : top_indices[k] > Len(item_map)
             THEN Raised(p)
             ELSE Returned([k \in DOMAIN top_indices |->
                              <<item_map[top_indices[k]], item_popularity[top_indices[k]]>>], p)
    ELSE IF matrixPart.kind = "list"
    THEN LET L == matrixPart.data
             \* Counter keeps its keys in insertion order
             keys == Unique([k \in DOMAIN L |-> L[k][2]])
             item_counts == [k \in DOMAIN keys |->
                               SeqSum([j \in DOMAIN L |-> IF L[j][2] = keys[k] THEN L[j][3] ELSE 0])]
             \* most_common(n): heapq.nlargest, ties in insertion order
             top == ArgsortDesc(item_counts, Len(keys), n, "first_seen")
         IN  Returned([k \in DOMAIN top |-> <<keys[top[k]], item_counts[top[k]]>>], p)
    ELSE Returned(<<>>, p)

\* model.predict(user_idx, np.arange(n_items)) raises: LightFM rejects ids
\* beyond the embeddings it estimated, and an empty id array has no max()
PredictRaises(model, user_idx, n_items) ==
    \/ n_items = 0
    \/ user_idx > NUsers(model)
    \/ n_items > NItems(model)

\* get_recommendations, lines 197-222: the user is in user_map; scores is
\* what model.predict returns
Scored(tb, model, userMapPart, itemMapPart, matrixPart, user_id, n, filter_known_items, scores) ==
    LET user_map == UserMapOf(userMapPart)
        item_map == ItemMapOf(itemMapPart)
        user_idx == IndexOf(user_map, user_id)
        n_items == Len(item_map)
        filtering == filter_known_items /\ matrixPart.kind # "none"
        m == MatrixOf(matrixPart)
        known_items == IF filtering THEN RowIndices(m, user_idx) ELSE {}
        masked == [k \in 1..n_items |-> IF k \in known_items THEN NegInf ELSE scores[k]]
        top_indices == ArgsortDesc(masked, n_items, n, tb)
        kept == SelectSeq2(top_indices, {k \in 1..n_items : masked[k] > NegInf})
    IN  IF PredictRaises(model, user_idx, n_items) THEN Raised("personalized")
        \* matrix[user_idx] and scores[known_items] are IndexErrors beyond
        \* the matrix's rows and the scores' length
        ELSE IF filtering /\ (user_idx > m.shape[1] \/ \E k \in known_items : k > n_items)
        THEN Raised("personalized")
        ELSE Returned([k \in DOMAIN kept |-> <<item_map[kept[k]], masked[kept[k]]>>],
                      "personalized")

\* a cold-start branch that answers with nothing
Personalized_ColdEmpty(lfm, tb, model, userMapPart, itemMapPart, matrixPart, user_id, n, filter_known_items, scores) ==
    IF user_id \notin Range(UserMapOf(userMapPart))
    THEN Returned(<<>>, "cold_user")
    ELSE Scored(tb, model, userMapPart, itemMapPart, matrixPart, user_id, n,
                filter_known_items, scores)

\* get_recommendations from line 187 on (the model entry exists)
Personalized(lfm, tb, model, userMapPart, itemMapPart, matrixPart, user_id, n, filter_known_items, scores) ==
    IF user_id \notin Range(UserMapOf(userMapPart))
    THEN PopularItems(lfm, tb, matrixPart, itemMapPart, n, "cold_user")
    ELSE Scored(tb, model, userMapPart, itemMapPart, matrixPart, user_id, n,
                filter_known_items, scores)

\* get_similar_items; sims is the cosine similarity of each embedding row
\* to the target row
SimilarItems(tb, model, itemMapPart, item_id, n, sims) ==
    IF model.kind = "none" THEN Returned(<<>>, "no_model")
    ELSE LET item_map == ItemMapOf(itemMapPart) IN
         IF item_id \notin Range(item_map) THEN Returned(<<>>, "unknown_item")
         ELSE LET item_idx == IndexOf(item_map, item_id)
                  rows == NItems(model)
                  similarities == [k \in 1..rows |-> IF k = item_idx THEN NegInf ELSE sims[k]]
                  top_indices == ArgsortDesc(similarities, rows, n, tb)
              IN  \* item_embeddings[item_idx] and item_id_reverse_map[idx]
                  IF item_idx > rows \/ \E k \in DOMAIN top_indices : top_indices[k] > Len(item_map)
                  THEN Raised("similar")
                  ELSE Returned([k \in DOMAIN top_indices |->
                                   <<item_map[top_indices[k]], similarities[top_indices[k]]>>],
                                "similar")

-----------------------------------------------------------------------------
(* RecommendationEngine: persistence *)

BlobOrder == <<"model", "user_map", "item_map", "matrix">>

Readable(f) == f.kind \notin {"none", "corrupt"}

\* load_model: mem and files are records of the four parts; io is the
\* position of a read that fails for a reason of its own (0: none).  The
\* reads before the first failing one have already replaced their entries.
load_model(mem, files, io) ==
    IF files.model.kind = "none" THEN [ok |-> FALSE, mem |-> mem]
    ELSE LET fails == {k \in 1..4 : ~Readable(files[BlobOrder[k]]) \/ io = k}
             done == IF fails = {} THEN 4
                     ELSE (CHOOSE k \in fails : \A j \in fails : k <= j) - 1
         IN  [ok |-> fails = {},
              mem |-> [b \in {"model", "user_map", "item_map", "matrix"} |->
                         IF IndexOf(BlobOrder, b) <= done THEN files[b] ELSE mem[b]]]

\* save_model: fault is the position of the joblib.dump that raises (0:
\* none); a dump that raises leaves its file as it was, or torn
save_model(mem, files, fault, torn) ==
    IF mem.model.kind = "none" THEN [raised |-> FALSE, files |-> files]
    ELSE LET missing == {k \in 1..4 : mem[BlobOrder[k]].kind = "none"}
             fails == missing \cup (IF fault = 0 THEN {} ELSE {fault})
             done == IF fails = {} THEN 4
                     ELSE (CHOOSE k \in fails : \A j \in fails : k <= j) - 1
         IN  [raised |-> fails # {},
              files |-> [b \in {"model", "user_map", "item_map", "matrix"} |->
                           IF IndexOf(BlobOrder, b) <= done THEN mem[b]
                           ELSE IF IndexOf(BlobOrder, b) = done + 1 /\ torn
                                   /\ IndexOf(BlobOrder, b) \notin missing
                           THEN Corrupt
                           ELSE files[b]]]

\* the four in-memory entries of a content type
Mem(ct) == [model |-> models[ct], user_map |-> user_id_mappings[ct],
            item_map |-> item_id_mappings[ct], matrix |-> interaction_matrices[ct]]

-----------------------------------------------------------------------------
(* RecommendationEngine: the calls *)

NoCall == [op |-> "none", ct |-> "", id |-> "", n |-> 0, filter |-> FALSE,
           res |-> Returned(<<>>, "")]

Call(op, ct, id, n, f, res) == [op |-> op, ct |-> ct, id |-> id, n |-> n, filter |-> f, res |-> res]

\* a tier with no entry
EmptyCache == [k \in {} |-> <<>>]

\* the record of a service or cache call: result is the returned list,
\* raised whether an exception left the call
NoServiceCall ==
    [op |-> "none", ct |-> "", user |-> "", n |-> 0, result |-> <<>>, raised |-> FALSE,
     hit |-> FALSE, engine_calls |-> 0, meta_calls |-> 0, engine_raised |-> FALSE,
     popular_failed |-> FALSE,
     after_invalidate |-> FALSE, repeat |-> FALSE, prev_result |-> <<>>,
     found |-> {}]

\* what a reader has read so far
Unread == [user |-> "", model |-> NoPart, user_map |-> NoPart, item_map |-> NoPart,
           matrix |-> NoPart]

\* train_model(interactions, content_type); the call record keeps
\* len(interactions) as n.  fit_raises: model.fit raises;
\* dump_fault/torn: see save_model.
train_model(content_type, interactions, fit_raises, dump_fault, torn) ==
    IF ~lightfm_available
    THEN /\ runs < MaxRuns
         /\ runs' = runs + 1
         /\ interaction_matrices' =
               [interaction_matrices EXCEPT ![content_type] = Part("list", runs + 1, interactions)]
         /\ ret' = Call("train_model", content_type, "", Len(interactions), FALSE, Returned(<<>>, "stored"))
         /\ UNCHANGED <<models, user_id_mappings, item_id_mappings, disk>>
    ELSE IF Cardinality(DOMAIN create_interaction_matrix(interactions).data) = 0
    THEN /\ ret' = Call("train_model", content_type, "", Len(interactions), FALSE, Returned(<<>>, "skipped"))
         /\ UNCHANGED <<models, user_id_mappings, item_id_mappings, interaction_matrices,
                        disk, runs>>
    ELSE /\ runs < MaxRuns
         /\ runs' = runs + 1
         /\ user_id_mappings' =
               [user_id_mappings EXCEPT ![content_type] = Part("user_map", runs + 1, interactions)]
         /\ item_id_mappings' =
               [item_id_mappings EXCEPT ![content_type] = Part("item_map", runs + 1, interactions)]
         /\ interaction_matrices' =
               [interaction_matrices EXCEPT ![content_type] = Part("csr", runs + 1, interactions)]
         /\ IF fit_raises
            THEN /\ ret' = Call("train_model", content_type, "", Len(interactions), FALSE, Raised("fit"))
                 /\ UNCHANGED <<models, disk>>
            ELSE LET model == Part("model", runs + 1, interactions)
                     mem == [model |-> model,
                             user_map |-> user_id_mappings'[content_type],
                             item_map |-> item_id_mappings'[content_type],
                             matrix |-> interaction_matrices'[content_type]]
                     saved == save_model(mem, disk[content_type], dump_fault, torn)
                 IN  /\ models' = [models EXCEPT ![content_type] = model]
                     /\ disk' = [disk EXCEPT ![content_type] = saved.files]
                     /\ ret' = Call("train_model", content_type, "", Len(interactions), FALSE,
                                    IF saved.raised THEN Raised("save")
                                    ELSE Returned(<<>>, "trained"))

\* get_recommendations(user_id, content_type, n_recommendations,
\* filter_known_items); scores is what model.predict returns, io a failing
\* read inside load_model
get_recommendations(content_type, user_id, n, filter_known_items, scores, io) ==
    IF ~lightfm_available
    THEN /\ ret' = Call("get_recommendations", content_type, user_id, n, filter_known_items,
                        PopularItems(lightfm_available, tie_break,
                                     interaction_matrices[content_type],
                                     item_id_mappings[content_type], n, "popularity_only"))
         /\ UNCHANGED <<models, user_id_mappings, item_id_mappings, interaction_matrices>>
    ELSE LET mem == IF models[content_type].kind = "none"
                    THEN load_model(Mem(content_type), disk[content_type], io).mem
                    ELSE Mem(content_type)
             res == IF mem.model.kind = "none"
                    THEN PopularItems(lightfm_available, tie_break, mem.matrix, mem.item_map,
                                      n, "no_model")
                    ELSE Personalized(lightfm_available, tie_break, mem.model, mem.user_map,
                                      mem.item_map, mem.matrix, user_id, n,
                                      filter_known_items, scores)
         IN  /\ models' = [models EXCEPT ![content_type] = mem.model]
             /\ user_id_mappings' = [user_id_mappings EXCEPT ![content_type] = mem.user_map]
             /\ item_id_mappings' = [item_id_mappings EXCEPT ![content_type] = mem.item_map]
             /\ interaction_matrices' = [interaction_matrices EXCEPT ![content_type] = mem.matrix]
             /\ ret' = Call("get_recommendations", content_type, user_id, n,
                            filter_known_items, res)

\* get_popular_items(content_type, n_items)
get_popular_items(content_type, n) ==
    /\ ret' = Call("get_popular_items", content_type, "", n, FALSE,
                   PopularItems(lightfm_available, tie_break, interaction_matrices[content_type],
                                item_id_mappings[content_type], n, "popular"))
    /\ UNCHANGED <<models, user_id_mappings, item_id_mappings, interaction_matrices>>

\* get_similar_items(item_id, content_type, n_similar)
get_similar_items(content_type, item_id, n, sims) ==
    /\ ret' = Call("get_similar_items", content_type, item_id, n, FALSE,
                   SimilarItems(tie_break, models[content_type], item_id_mappings[content_type],
                                item_id, n, sims))
    /\ UNCHANGED <<models, user_id_mappings, item_id_mappings, interaction_matrices>>

-----------------------------------------------------------------------------
(* The engine of one process, called sequentially *)

\* no cache operation made directly yet
NoCacheOp == [op |-> "none", user |-> "", ct |-> "", n |-> 0, hit |-> FALSE, list |-> <<>>,
              was_stale |-> FALSE, was_set |-> FALSE, expected |-> <<>>,
              before |-> EmptyCache]

InitCacheApi ==
    /\ cop = NoCacheOp
    /\ last_set = EmptyCache
    /\ stale = {}

\* no training request made yet
NoJob == [kind |-> "none", pc |-> 0, attempts |-> <<>>, results |-> <<>>,
          fetched |-> 0, engine_calls |-> 0, engine_raised |-> FALSE,
          hyper |-> [n_components |-> 0, epochs |-> 0],
          raised |-> FALSE, done |-> FALSE]

InitTraining == job = NoJob

TaskIds == {"t1", "t2", "g"}

\* no request issued yet
InitLoop ==
    /\ deployment = "threads"
    /\ tasks = [t \in TaskIds |-> [pc |-> "idle", data |-> <<>>, res |-> NoCall.res]]
    /\ busy = ""

\* RecommendationCache.__init__ with empty tiers, no call made yet
InitService ==
    /\ memory_cache = EmptyCache
    /\ django_cache = EmptyCache
    /\ svc = NoServiceCall
    /\ pending_invalidations = {}
    /\ quiet = TRUE
    /\ calls = 0

\* the two threads before they start
InitThreads ==
    /\ pcT = "idle"
    /\ tloc = NoPart
    /\ pcR = "idle"
    /\ rd = Unread

InitEngineState ==
    /\ models = [ct \in ContentTypes |-> NoPart]
    /\ user_id_mappings = [ct \in ContentTypes |-> NoPart]
    /\ item_id_mappings = [ct \in ContentTypes |-> NoPart]
    /\ interaction_matrices = [ct \in ContentTypes |-> NoPart]
    /\ disk = [ct \in ContentTypes |-> NoFiles]
    /\ runs = 0
    /\ ret = NoCall

InitEngine ==
    /\ lightfm_available \in BOOLEAN
    /\ tie_break \in TieBreaks
    /\ InitEngineState
    /\ InitThreads
    /\ use_django_cache = TRUE
    /\ scope = [types |-> ContentTypes, users |-> Users]
    /\ InitService
    /\ InitCacheApi
    /\ InitTraining
    /\ InitLoop

ScoreArrays == [1..Cardinality(Items) -> ScoreVals]

TrainModel ==
    \E ct \in EngineTypes, L \in InteractionLists, fit_raises \in BOOLEAN :
        /\ ret = NoCall
        /\ train_model(ct, L, fit_raises, 0, FALSE)
        /\ UNCHANGED <<lightfm_available, tie_break, nonEngineVars>>

GetRecommendations ==
    \E ct \in EngineTypes, u \in Users, n \in 0..MaxN, f \in BOOLEAN, scores \in ScoreArrays :
        /\ ret = NoCall
        /\ get_recommendations(ct, u, n, f, scores, 0)
        /\ UNCHANGED <<lightfm_available, tie_break, disk, runs, nonEngineVars>>

GetPopularItems ==
    \E ct \in EngineTypes, n \in 0..MaxN :
        /\ ret = NoCall
        /\ get_popular_items(ct, n)
        /\ UNCHANGED <<lightfm_available, tie_break, disk, runs, nonEngineVars>>

GetSimilarItems ==
    \E ct \in EngineTypes, i \in Items, n \in 0..MaxN, sims \in ScoreArrays :
        /\ ret = NoCall
        /\ get_similar_items(ct, i, n, sims)
        /\ UNCHANGED <<lightfm_available, tie_break, disk, runs, nonEngineVars>>

\* the caller takes the result of its call; calls are made one at a time
Return ==
    /\ ret # NoCall
    /\ ret' = NoCall
    /\ UNCHANGED <<lightfm_available, tie_break, models, user_id_mappings, item_id_mappings,
                   interaction_matrices, disk, runs, nonEngineVars>>

NextEngine == TrainModel \/ GetRecommendations \/ GetPopularItems \/ GetSimilarItems \/ Return

SpecEngine == InitEngine /\ [][NextEngine]_vars

-----------------------------------------------------------------------------
(* Properties of the engine *)

\* the items user u has an interaction with in the interaction list L
KnownItemsOf(L, u) == {L[k][2] : k \in {j \in DOMAIN L : L[j][1] = u}}

ItemsOf(L) == {L[k][2] : k \in DOMAIN L}
UsersOf(L) == {L[k][1] : k \in DOMAIN L}

\* the items of a returned list of (item_id, score) pairs
Returns(v) == {v[k][1] : k \in DOMAIN v}

\* the last call was get_recommendations for a user of the user_map of a
\* content type that has a model
ServedFromModel ==
    /\ ret.op = "get_recommendations"
    /\ lightfm_available
    /\ models[ret.ct].kind = "model"
    /\ ret.id \in Range(UserMapOf(user_id_mappings[ret.ct]))

\* C2: with filter_known_items, get_recommendations for a user of the
\* user_map returns no item the user has an interaction with in the training
\* data held for the content type.
C2_FilterKnown ==
    (ServedFromModel /\ ret.filter)
        => Returns(ret.res.value)
             \cap KnownItemsOf(interaction_matrices[ret.ct].data, ret.id) = {}

\* C2 witness: a user with a known item asked for as many items as there are,
\* and got a list.
C2_Witness ==
    /\ ServedFromModel /\ ret.filter /\ ~ret.res.raised
    /\ KnownItemsOf(interaction_matrices[ret.ct].data, ret.id) # {}
    /\ ret.n >= Len(ItemMapOf(item_id_mappings[ret.ct]))
    /\ ret.res.value # <<>>

\* C5: the result of get_similar_items(item_id, ...) does not contain
\* item_id, whatever n.
C5_SimilarExcludesSelf ==
    ret.op = "get_similar_items" => ret.id \notin Returns(ret.res.value)

Snapshot(ct) ==
    /\ lightfm_available
    /\ models[ct].kind = "model"
    /\ user_id_mappings[ct].run = models[ct].run
    /\ item_id_mappings[ct].run = models[ct].run
    /\ interaction_matrices[ct].run = models[ct].run

\* the last call was get_recommendations, with the default filtering, for a
\* user of the interactions a successful training run was given
AskedAfterTraining ==
    /\ ret.op = "get_recommendations"
    /\ ret.filter
    /\ Snapshot(ret.ct)
    /\ ret.id \in UsersOf(models[ret.ct].data)

TotalWeight(L, i) == SeqSum([k \in DOMAIN L |-> IF L[k][2] = i THEN L[k][3] ELSE 0])

\* position of the first triple of L with item i
FirstSeen(L, i) == CHOOSE k \in DOMAIN L : L[k][2] = i /\ \A j \in 1..(k - 1) : L[j][2] # i

\* item a comes before item b in the popularity order of L
RanksAbove(L, a, b) ==
    \/ TotalWeight(L, a) > TotalWeight(L, b)
    \/ TotalWeight(L, a) = TotalWeight(L, b) /\ FirstSeen(L, a) < FirstSeen(L, b)

\* v is the first n entries of the popularity order of L
IsPopularPrefix(v, L, n) ==
    /\ Len(v) = Min(n, Cardinality(ItemsOf(L)))
    /\ \A k \in DOMAIN v : v[k][1] \in ItemsOf(L) /\ v[k][2] = TotalWeight(L, v[k][1])
    /\ \A j, k \in DOMAIN v : j < k => RanksAbove(L, v[j][1], v[k][1])
    /\ \A k \in DOMAIN v : \A i \in ItemsOf(L) \ Returns(v) : RanksAbove(L, v[k][1], i)

\* C8: get_popular_items returns the first n items by summed weight,
\* highest first, equal weights in first-seen order, from a trained matrix
\* and from raw stored triples alike.
C8_PopularOrder ==
    (ret.op = "get_popular_items" /\ interaction_matrices[ret.ct].kind # "none")
        => /\ ~ret.res.raised
           /\ IsPopularPrefix(ret.res.value, interaction_matrices[ret.ct].data, ret.n)

-----------------------------------------------------------------------------
(* A training thread and a serving thread on the same engine.  Neither      *)
(* method takes a lock, so the threads interleave between statements.       *)

MaxConcLen == 2

ConcLists == {L \in InteractionLists : Len(L) >= 1 /\ Len(L) <= MaxConcLen}

ConcType == "movie"

engineFrame == <<lightfm_available, tie_break>>

\* train_model, lines 119-132: the matrix is built, it has entries
TrainBegin ==
    /\ pcT = "idle"
    /\ runs < MaxRuns
    /\ \E L \in ConcLists :
         tloc' = Part("local", runs + 1, L)
    /\ runs' = runs + 1
    /\ pcT' = "l135"
    /\ UNCHANGED <<engineFrame, models, user_id_mappings, item_id_mappings,
                   interaction_matrices, disk, ret, pcR, rd, cacheVars, serviceVars, extraVars>>

\* line 135
TrainStoreUserMap ==
    /\ pcT = "l135"
    /\ user_id_mappings' =
          [user_id_mappings EXCEPT ![ConcType] = Part("user_map", tloc.run, tloc.data)]
    /\ pcT' = "l136"
    /\ UNCHANGED <<engineFrame, models, item_id_mappings, interaction_matrices, disk, runs,
                   ret, tloc, pcR, rd, cacheVars, serviceVars, extraVars>>

\* line 136
TrainStoreItemMap ==
    /\ pcT = "l136"
    /\ item_id_mappings' =
          [item_id_mappings EXCEPT ![ConcType] = Part("item_map", tloc.run, tloc.data)]
    /\ pcT' = "l137"
    /\ UNCHANGED <<engineFrame, models, user_id_mappings, interaction_matrices, disk, runs,
                   ret, tloc, pcR, rd, cacheVars, serviceVars, extraVars>>

\* line 137
TrainStoreMatrix ==
    /\ pcT = "l137"
    /\ interaction_matrices' =
          [interaction_matrices EXCEPT ![ConcType] = Part("csr", tloc.run, tloc.data)]
    /\ pcT' = "l143"
    /\ UNCHANGED <<engineFrame, models, user_id_mappings, item_id_mappings, disk, runs,
                   ret, tloc, pcR, rd, cacheVars, serviceVars, extraVars>>

\* lines 140-143: model.fit returns, or raises out of train_model
TrainFit ==
    /\ pcT = "l143"
    /\ \E fit_raises \in BOOLEAN :
         pcT' = IF fit_raises THEN "idle" ELSE "l146"
    /\ UNCHANGED <<engineFrame, models, user_id_mappings, item_id_mappings,
                   interaction_matrices, disk, runs, ret, tloc, pcR, rd, cacheVars, serviceVars, extraVars>>

\* line 146
TrainStoreModel ==
    /\ pcT = "l146"
    /\ models' = [models EXCEPT ![ConcType] = Part("model", tloc.run, tloc.data)]
    /\ pcT' = "l151"
    /\ UNCHANGED <<engineFrame, user_id_mappings, item_id_mappings, interaction_matrices,
                   disk, runs, ret, tloc, pcR, rd, cacheVars, serviceVars, extraVars>>

\* line 151
TrainSave ==
    /\ pcT = "l151"
    /\ disk' = [disk EXCEPT ![ConcType] = save_model(Mem(ConcType), disk[ConcType], 0, FALSE).files]
    /\ pcT' = "idle"
    /\ UNCHANGED <<engineFrame, models, user_id_mappings, item_id_mappings,
                   interaction_matrices, runs, ret, tloc, pcR, rd, cacheVars, serviceVars, extraVars>>

\* get_recommendations, lines 172-185: the call starts; without a model it
\* tries load_model and, still without one, goes to get_popular_items
ReadBegin ==
    /\ pcR = "idle"
    /\ \E u \in Users : rd' = [Unread EXCEPT !.user = u]
    /\ LET mem == IF models[ConcType].kind = "none"
                  THEN load_model(Mem(ConcType), disk[ConcType], 0).mem
                  ELSE Mem(ConcType)
       IN  /\ models' = [models EXCEPT ![ConcType] = mem.model]
           /\ user_id_mappings' = [user_id_mappings EXCEPT ![ConcType] = mem.user_map]
           /\ item_id_mappings' = [item_id_mappings EXCEPT ![ConcType] = mem.item_map]
           /\ interaction_matrices' = [interaction_matrices EXCEPT ![ConcType] = mem.matrix]
           /\ pcR' = IF mem.model.kind = "none" THEN "l238" ELSE "l187"
    /\ ret' = NoCall
    /\ UNCHANGED <<engineFrame, disk, runs, pcT, tloc, cacheVars, serviceVars, extraVars>>

\* line 187
ReadModel ==
    /\ pcR = "l187"
    /\ rd' = [rd EXCEPT !.model = models[ConcType]]
    /\ pcR' = "l188"
    /\ UNCHANGED <<engineVars, pcT, tloc, cacheVars, serviceVars, extraVars>>

\* line 188
ReadUserMap ==
    /\ pcR = "l188"
    /\ rd' = [rd EXCEPT !.user_map = user_id_mappings[ConcType]]
    /\ pcR' = "l189"
    /\ UNCHANGED <<engineVars, pcT, tloc, cacheVars, serviceVars, extraVars>>

\* lines 189-195: item_map is read; an unknown user goes to get_popular_items
ReadItemMap ==
    /\ pcR = "l189"
    /\ rd' = [rd EXCEPT !.item_map = item_id_mappings[ConcType]]
    /\ pcR' = IF rd.user \in Range(UserMapOf(rd.user_map)) THEN "l206" ELSE "l238"
    /\ UNCHANGED <<engineVars, pcT, tloc, cacheVars, serviceVars, extraVars>>

\* lines 197-222: predict, the matrix row is read, the list is built
ReadMatrixAndReturn ==
    /\ pcR = "l206"
    /\ rd' = [rd EXCEPT !.matrix = interaction_matrices[ConcType]]
    /\ \E scores \in ScoreArrays :
         ret' = Call("get_recommendations", ConcType, rd.user, MaxN, TRUE,
                     Scored(tie_break, rd.model, rd.user_map, rd.item_map,
                            interaction_matrices[ConcType], rd.user, MaxN, TRUE, scores))
    /\ pcR' = "done"
    /\ UNCHANGED <<engineFrame, models, user_id_mappings, item_id_mappings,
                   interaction_matrices, disk, runs, pcT, tloc, cacheVars, serviceVars, extraVars>>

\* get_popular_items, lines 235-238
PopularReadMatrix ==
    /\ pcR = "l238"
    /\ rd' = [rd EXCEPT !.matrix = interaction_matrices[ConcType]]
    /\ pcR' = "l242"
    /\ UNCHANGED <<engineVars, pcT, tloc, cacheVars, serviceVars, extraVars>>

\* get_popular_items, lines 241-257
PopularReadItemMapAndReturn ==
    /\ pcR = "l242"
    /\ rd' = [rd EXCEPT !.item_map = item_id_mappings[ConcType]]
    /\ ret' = Call("get_recommendations", ConcType, rd.user, MaxN, TRUE,
                   PopularItems(lightfm_available, tie_break, rd.matrix,
                                item_id_mappings[ConcType], MaxN, "popular"))
    /\ pcR' = "done"
    /\ UNCHANGED <<engineFrame, models, user_id_mappings, item_id_mappings,
                   interaction_matrices, disk, runs, pcT, tloc, cacheVars, serviceVars, extraVars>>

\* the reader's caller takes the result
ReadEnd ==
    /\ pcR = "done"
    /\ pcR' = "idle"
    /\ rd' = Unread
    /\ ret' = NoCall
    /\ UNCHANGED <<engineFrame, models, user_id_mappings, item_id_mappings,
                   interaction_matrices, disk, runs, pcT, tloc, cacheVars, serviceVars, extraVars>>

InitConc ==
    /\ lightfm_available = TRUE
    /\ tie_break = "first_seen"
    /\ InitEngineState
    /\ InitThreads
    /\ use_django_cache = TRUE
    /\ scope = [types |-> ContentTypes, users |-> Users]
    /\ InitService
    /\ InitCacheApi
    /\ InitTraining
    /\ InitLoop

NextConc ==
    \/ TrainBegin \/ TrainStoreUserMap \/ TrainStoreItemMap \/ TrainStoreMatrix
    \/ TrainFit \/ TrainStoreModel \/ TrainSave
    \/ ReadBegin \/ ReadModel \/ ReadUserMap \/ ReadItemMap \/ ReadMatrixAndReturn
    \/ PopularReadMatrix \/ PopularReadItemMapAndReturn \/ ReadEnd

SpecConc == InitConc /\ [][NextConc]_vars

\* the training runs whose entries the reader has used
RunsRead == {rd[f].run : f \in {g \in {"model", "user_map", "item_map", "matrix"} :
                                   rd[g].kind # "none"}}

\* C1: a reader that runs while train_model runs uses a model, matrix,
\* user_map and item_map that all come from the same training run.
C1_OneGeneration == pcR = "done" => Cardinality(RunsRead) <= 1

-----------------------------------------------------------------------------
(* RecommendationCache, the data service and RecommendationService *)

MaxCalls == 3

\* strings as tuples of characters, so that a key can be searched
Chars == [u1 |-> <<"u", "1">>, u2 |-> <<"u", "2">>,
          movie |-> <<"m", "o", "v", "i", "e">>,
          manga |-> <<"m", "a", "n", "g", "a">>,
          anime |-> <<"a", "n", "i", "m", "e">>]

\* hashlib.md5(f"{user_id}:{content_type}:{n_recommendations}".encode()).hexdigest()
md5_hexdigest ==
    <<"u1", "movie", 1>> :>
        <<"2","7","6","2","2","2","0","c","4","7","1","4","8","c","e","7","1","a","6","a","4","0","d","1","f","4","1","b","9","3","a","9">> @@
    <<"u1", "movie", 2>> :>
        <<"9","3","e","2","8","a","f","8","f","5","3","9","e","8","3","f","7","1","8","e","d","7","d","f","d","e","b","b","2","e","2","6">> @@
    <<"u1", "movie", 3>> :>
        <<"c","f","b","6","7","7","c","2","1","a","8","a","d","2","e","9","0","0","2","0","e","8","4","3","0","0","6","3","e","2","7","d">> @@
    <<"u1", "movie", 4>> :>
        <<"d","6","5","3","6","e","5","f","6","e","a","b","9","c","4","c","6","8","d","e","a","4","4","d","c","f","f","a","f","0","8","0">> @@
    <<"u1", "manga", 1>> :>
        <<"c","0","7","1","7","f","f","4","4","b","e","6","a","8","e","b","3","e","2","0","9","b","c","2","4","4","f","7","d","6","5","b">> @@
    <<"u1", "manga", 2>> :>
        <<"e","9","6","a","d","2","3","6","8","b","4","f","a","5","5","2","9","a","3","8","5","5","8","6","e","0","2","b","6","1","b","9">> @@
    <<"u1", "manga", 3>> :>
        <<"d","2","4","4","6","3","3","6","4","e","c","5","1","0","b","d","9","4","b","6","7","5","b","1","0","8","3","a","b","7","4","9">> @@
    <<"u1", "manga", 4>> :>
        <<"8","2","3","9","5","d","3","5","f","0","8","1","3","c","0","2","f","c","d","1","d","a","e","6","2","d","e","1","c","0","0","2">> @@
    <<"u1", "anime", 1>> :>
        <<"4","e","d","8","e","e","0","a","d","2","4","8","7","0","0","f","3","7","9","b","2","4","4","3","b","4","7","5","a","1","f","4">> @@
    <<"u1", "anime", 2>> :>
        <<"7","e","e","6","4","9","d","7","9","5","a","a","6","3","1","3","5","0","7","2","2","8","8","8","0","e","7","1","c","c","5","3">> @@
    <<"u1", "anime", 3>> :>
        <<"7","9","b","a","4","f","c","5","0","f","2","7","0","5","2","e","c","2","5","3","9","6","d","3","e","8","0","a","b","0","c","0">> @@
    <<"u1", "anime", 4>> :>
        <<"7","5","a","6","a","8","4","a","9","e","1","e","8","0","1","9","9","6","2","4","8","f","0","a","2","8","b","9","2","1","6","0">> @@
    <<"u2", "movie", 1>> :>
        <<"3","b","b","d","7","b","8","9","a","f","e","9","9","f","6","c","b","0","d","4","0","e","2","c","a","5","4","5","c","b","0","3">> @@
    <<"u2", "movie", 2>> :>
        <<"9","a","f","b","e","5","4","3","3","6","0","3","b","6","c","9","e","9","4","2","3","5","5","1","8","1","8","9","a","5","b","6">> @@
    <<"u2", "movie", 3>> :>
        <<"6","c","7","b","d","1","8","7","8","e","f","1","0","2","b","5","e","e","6","c","8","a","6","f","5","d","5","f","a","f","4","f">> @@
    <<"u2", "movie", 4>> :>
        <<"a","f","f","2","c","e","3","6","6","5","a","9","a","a","a","e","c","f","a","d","8","4","a","6","9","4","6","2","7","3","6","b">> @@
    <<"u2", "manga", 1>> :>
        <<"d","9","9","1","0","f","9","1","2","4","d","a","8","b","a","d","7","0","8","4","6","8","f","1","6","b","e","0","c","2","6","0">> @@
    <<"u2", "manga", 2>> :>
        <<"5","3","2","1","3","c","6","f","7","c","2","f","b","f","0","4","e","5","1","4","b","6","a","f","e","f","c","d","0","f","6","2">> @@
    <<"u2", "manga", 3>> :>
        <<"7","8","0","6","0","7","1","0","6","f","1","c","9","9","1","2","8","6","2","6","7","c","2","1","8","9","f","a","3","8","b","7">> @@
    <<"u2", "manga", 4>> :>
        <<"b","b","d","c","b","e","a","c","7","6","c","f","f","6","9","e","4","f","d","3","4","d","b","f","a","c","4","2","1","e","5","0">> @@
    <<"u2", "anime", 1>> :>
        <<"0","c","f","d","4","a","9","7","b","b","8","b","f","4","0","d","2","d","f","4","f","9","b","c","3","4","5","6","1","8","c","a">> @@
    <<"u2", "anime", 2>> :>
        <<"1","9","d","5","7","8","7","c","6","7","b","2","1","9","0","9","2","2","1","5","3","d","a","d","4","0","a","4","3","9","a","1">> @@
    <<"u2", "anime", 3>> :>
        <<"d","7","c","e","7","e","3","a","9","7","7","b","b","d","e","1","5","1","9","0","2","f","8","8","f","3","9","4","3","f","b","0">> @@
    <<"u2", "anime", 4>> :>
        <<"8","2","5","b","0","1","1","8","6","0","7","0","0","c","c","f","0","c","e","d","0","3","9","a","7","0","3","4","a","0","6","d">>

\* _make_key: f"rec:{content_type}:{user_id}:{key_hash}"
make_key(user_id, content_type, n) ==
    <<"r", "e", "c", ":">> \o Chars[content_type] \o <<":">> \o Chars[user_id] \o <<":">>
        \o md5_hexdigest[<<user_id, content_type, n>>]

\* Python's  sub in s  on strings
Contains(sub, s) ==
    \E i \in 0..(Len(s) - Len(sub)) : SubSeq(s, i + 1, i + Len(sub)) = sub

\* Optional[List[Dict]]
None == [is_none |-> TRUE, list |-> <<>>]
Some(v) == [is_none |-> FALSE, list |-> v]

\* d[k] = v  and  del d[k] for k in D  on a dict
Put(d, k, v) == [x \in DOMAIN d \cup {k} |-> IF x = k THEN v ELSE d[x]]
Without(d, D) == [x \in DOMAIN d \ D |-> d[x]]

\* RecommendationCache.get; get_fails: cache.get of the shared tier raises
cache_get(user_id, content_type, n, get_fails) ==
    LET key == make_key(user_id, content_type, n)
    IN  IF use_django_cache /\ ~get_fails /\ key \in DOMAIN django_cache
        THEN Some(django_cache[key])
        ELSE IF key \in DOMAIN memory_cache THEN Some(memory_cache[key]) ELSE None

\* RecommendationCache.set; set_fails: cache.set of the shared tier raises
cache_set(user_id, content_type, n, recommendations, set_fails) ==
    LET key == make_key(user_id, content_type, n)
    IN  /\ django_cache' = IF use_django_cache /\ ~set_fails
                           THEN Put(django_cache, key, recommendations)
                           ELSE django_cache
        /\ memory_cache' = Put(memory_cache, key, recommendations)

\* RecommendationCache.invalidate: the pattern built from content_type is
\* not used; the shared tier is only logged about
cache_invalidate(user_id, content_type) ==
    /\ memory_cache' = Without(memory_cache,
                               {k \in DOMAIN memory_cache : Contains(Chars[user_id], k)})
    /\ UNCHANGED django_cache

\* RecommendationCache.clear_all
cache_clear_all ==
    /\ memory_cache' = Without(memory_cache, DOMAIN memory_cache)
    /\ UNCHANGED django_cache

\* the dict the data service builds for an item
Detail(id) == [id |-> id, has_score |-> FALSE, recommendation_score |-> 0]

\* movie_details['recommendation_score'] = score
WithScore(d, score) == [d EXCEPT !.has_score = TRUE, !.recommendation_score = score]

LookupOutcomes == {"found", "absent", "raises"}

\* get_movie_by_id / get_manga_by_id / get_anime_by_id: the dict, or None
\* when the node is absent or the query raises
get_by_id(item_id, outcome) ==
    IF outcome = "found" THEN Returned(<<Detail(item_id)>>, "found")
    ELSE Returned(<<>>, "none")

\* the repository's items by number of likes / users, most liked first
PopularOrder == [movie |-> <<"i1", "i2">>, manga |-> <<"i2", "i1">>, anime |-> <<"i1", "i2">>]

\* what the  ORDER BY ... DESC LIMIT $limit  query yields
PopularListing(content_type, limit) ==
    [k \in 1..Min(limit, Len(PopularOrder[content_type])) |->
        Detail(PopularOrder[content_type][k])]

get_popular_Uncaught(content_type, limit, query_fails) ==
    IF query_fails THEN Raised("popular") ELSE Returned(PopularListing(content_type, limit), "popular")

\* get_popular_movies / get_popular_manga: the listing, [] when the query raises
get_popular(content_type, limit, query_fails) ==
    IF query_fails THEN Returned(<<>>, "popular_failed")
    ELSE Returned(PopularListing(content_type, limit), "popular")

Enriched_Unscored(recommendations, lookups) ==
    Returned([k \in 1..Len(recommendations) |-> Detail(recommendations[k][1])], "enriched")

\* the enrichment loop over the engine's (item_id, score) pairs
RECURSIVE Enriched(_, _)
Enriched(recommendations, lookups) ==
    IF recommendations = <<>> THEN Returned(<<>>, "enriched")
    ELSE LET item_id == recommendations[1][1]
             score == recommendations[1][2]
             details == get_by_id(item_id, lookups[item_id])
             rest == Enriched(Tail(recommendations), lookups)
         IN  IF details.raised \/ rest.raised THEN Raised("lookup")
             ELSE Returned((IF details.value = <<>> THEN <<>>
                            ELSE <<WithScore(details.value[1], score)>>) \o rest.value,
                           "enriched")

\* get_movie_recommendations without its decorator; engine is what
\* engine.get_recommendations did
get_movie_recommendations(engine, n, lookups, query_fails) ==
    LET enriched == IF engine.raised THEN engine ELSE Enriched(engine.value, lookups)
    IN  IF enriched.raised THEN get_popular("movie", n, query_fails) ELSE enriched

get_manga_recommendations(engine, n, lookups, query_fails) ==
    LET enriched == IF engine.raised THEN engine ELSE Enriched(engine.value, lookups)
    IN  IF enriched.raised THEN get_popular("manga", n, query_fails) ELSE enriched

get_anime_recommendations(engine, n, lookups, query_fails) ==
    LET enriched == IF engine.raised THEN engine ELSE Enriched(engine.value, lookups)
    IN  IF enriched.raised THEN Returned(<<>>, "empty") ELSE enriched

\* the wrapper picks the content type from the function name
Handler(content_type, engine, n, lookups, query_fails) ==
    IF content_type = "movie" THEN get_movie_recommendations(engine, n, lookups, query_fails)
    ELSE IF content_type = "manga" THEN get_manga_recommendations(engine, n, lookups, query_fails)
    ELSE get_anime_recommendations(engine, n, lookups, query_fails)

\* whether the handler asks the repository for its popularity listing
AsksPopular(content_type, engine) == engine.raised /\ content_type # "anime"


-----------------------------------------------------------------------------
(* One process serving, training and invalidating; the shared tier is the   *)
(* Redis backend of settings.CACHES                                         *)

\* what get_<type>_interactions returns when the store has interactions
ServiceLists == {<<<<"u1", "i1", Liked>>>>,
                 <<<<"u1", "i1", Liked>>, <<"u2", "i2", Liked>>>>}

\* what the fitted model predicts
ServiceScoreArrays == {s \in ScoreArrays : \A k \in DOMAIN s : s[k] = MaxScore}

\* content types share no engine state and users no cache key, so a
\* behaviour is explored for one content type and one caller at a time;
\* the training data is about every user
Scopes == {[types |-> {ct}, users |-> {u}] : ct \in ContentTypes, u \in Users}

\* the shared tier can fail only where it is used
SharedFaults == IF use_django_cache THEN BOOLEAN ELSE {FALSE}

\* await service.get_<content_type>_recommendations(user_id, n): the wrapper
\* of cached_recommendation around the handler
ServeRecommendations ==
    /\ calls < MaxCalls
    /\ calls' = calls + 1
    /\ quiet' = TRUE
    /\ \E content_type \in scope.types, user_id \in scope.users, n \in 1..MaxN,
          get_fails \in SharedFaults :
         LET cached_result == cache_get(user_id, content_type, n, get_fails)
             repeat == /\ quiet
                       /\ svc.op = "get"
                       /\ svc.ct = content_type
                       /\ svc.user = user_id
                       /\ svc.n = n
             base == [NoServiceCall EXCEPT
                        !.op = "get", !.ct = content_type, !.user = user_id, !.n = n,
                        !.after_invalidate = user_id \in pending_invalidations,
                        !.repeat = repeat,
                        !.prev_result = IF repeat THEN svc.result ELSE <<>>]
         IN  /\ pending_invalidations' = pending_invalidations \ {user_id}
             /\ IF ~cached_result.is_none
                THEN /\ svc' = [base EXCEPT !.hit = TRUE, !.result = cached_result.list]
                     /\ ret' = NoCall
                     /\ UNCHANGED <<models, user_id_mappings, item_id_mappings,
                                    interaction_matrices, memory_cache, django_cache>>
                ELSE /\ \E scores \in ServiceScoreArrays :
                          get_recommendations(content_type, user_id, n, TRUE, scores, 0)
                     /\ \E lookups \in [(IF ret'.res.raised THEN {} ELSE Returns(ret'.res.value))
                                          -> LookupOutcomes],
                           query_fails \in (IF AsksPopular(content_type, ret'.res)
                                            THEN BOOLEAN ELSE {FALSE}),
                           set_fails \in SharedFaults :
                          LET result == Handler(content_type, ret'.res, n, lookups, query_fails)
                          IN  /\ IF result.raised
                                 THEN UNCHANGED <<memory_cache, django_cache>>
                                 ELSE cache_set(user_id, content_type, n, result.value, set_fails)
                              /\ svc' = [base EXCEPT
                                    !.result = result.value,
                                    !.raised = result.raised,
                                    !.engine_calls = 1,
                                    !.meta_calls = (IF ret'.res.raised THEN 0
                                                    ELSE Len(ret'.res.value))
                                                   + (IF AsksPopular(content_type, ret'.res)
                                                      THEN 1 ELSE 0),
                                    !.engine_raised = ret'.res.raised,
                                    !.found = {i \in DOMAIN lookups : lookups[i] = "found"},
                                    !.popular_failed = query_fails]
    /\ UNCHANGED <<lightfm_available, tie_break, disk, runs, concVars, extraVars, configVars>>

\* a retrain that also empties the local tier
TrainTypeModel_DropsCache ==
    /\ \E content_type \in scope.types, interactions \in ServiceLists, fit_raises \in BOOLEAN :
         train_model(content_type, interactions, fit_raises, 0, FALSE)
    /\ cache_clear_all
    /\ UNCHANGED <<lightfm_available, tie_break, concVars, configVars, serviceVars, extraVars>>

\* await service.train_<content_type>_model(): interactions is what the data
\* service extracted ([] also when the extraction raised)
TrainTypeModel ==
    /\ \E content_type \in scope.types, interactions \in ServiceLists \cup {<<>>} :
         IF interactions = <<>>
         THEN /\ ret' = NoCall
              /\ UNCHANGED <<models, user_id_mappings, item_id_mappings,
                             interaction_matrices, disk, runs>>
         ELSE \E fit_raises \in BOOLEAN :
                 train_model(content_type, interactions, fit_raises, 0, FALSE)
    /\ UNCHANGED <<lightfm_available, tie_break, concVars, cacheVars, serviceVars, extraVars>>

\* get_recommendation_cache().invalidate(user_id, content_type); "" is None
Invalidate ==
    /\ \E user_id \in scope.users, content_type \in scope.types \cup {""} :
         /\ cache_invalidate(user_id, content_type)
         /\ pending_invalidations' = IF content_type = ""
                                     THEN pending_invalidations \cup {user_id}
                                     ELSE pending_invalidations
    /\ quiet' = FALSE
    /\ UNCHANGED <<engineVars, concVars, extraVars, configVars, svc, calls>>

\* get_recommendation_cache().clear_all()
ClearAll ==
    /\ cache_clear_all
    /\ quiet' = FALSE
    /\ UNCHANGED <<engineVars, concVars, extraVars, configVars, svc, pending_invalidations, calls>>

\* the ttl given to cache.set runs out for one key of the shared tier
ExpireShared ==
    /\ use_django_cache
    /\ \E k \in DOMAIN django_cache : django_cache' = Without(django_cache, {k})
    /\ UNCHANGED <<engineVars, concVars, extraVars, configVars, memory_cache, serviceVars>>

InitServing ==
    /\ lightfm_available = TRUE
    /\ tie_break = "first_seen"
    /\ InitEngineState
    /\ InitThreads
    /\ use_django_cache \in BOOLEAN
    /\ scope \in Scopes
    /\ InitService
    /\ InitCacheApi
    /\ InitTraining
    /\ InitLoop

NextService == ServeRecommendations \/ TrainTypeModel \/ Invalidate \/ ClearAll \/ ExpireShared

SpecService == InitServing /\ [][NextService]_vars


-----------------------------------------------------------------------------
(* Properties of the service and its cache *)

Served == svc.op = "get"

\* C3: after invalidate(user_id) has returned, the next
\* get_<type>_recommendations call for that user is a cache miss and calls
\* the engine again, with the shared tier in use or not.
C3_MissAfterInvalidate ==
    (Served /\ svc.after_invalidate) => (~svc.hit /\ svc.engine_calls = 1)

\* C4: two consecutive calls with the same user_id and n and no invalidation
\* between them return the same ordered list, and the second one calls
\* neither the engine nor the metadata repository.
C4_Idempotent ==
    (Served /\ svc.repeat) =>
        (svc.result = svc.prev_result /\ svc.engine_calls = 0 /\ svc.meta_calls = 0)

\* C9: get_movie_recommendations, get_manga_recommendations and
\* get_anime_recommendations never let an exception reach the caller,
\* whatever the engine, the metadata repository and the shared tier do;
\* each call returns a list.
C9_NeverRaises == Served => ~svc.raised

\* the engine raised, the popularity query raised too, and the caller still
\* has a list
C9_Witness == Served /\ svc.engine_raised /\ svc.popular_failed /\ ~svc.raised

\* C10: for movie, manga and anime alike, when the engine call raises the
\* call returns the repository's popularity listing for that content type
\* and n.
C10_FallbackIsPopular ==
    (Served /\ svc.engine_raised /\ ~svc.popular_failed) =>
        svc.result = PopularListing(svc.ct, svc.n)


\* the engine's pairs whose item has metadata, as scored dicts, in the
\* engine's order
ScoredDetails(pairs, found) ==
    LET kept == SelectSeq(pairs, LAMBDA p : p[1] \in found)
    IN  [k \in 1..Len(kept) |->
            [id |-> kept[k][1], has_score |-> TRUE, recommendation_score |-> kept[k][2]]]

\* C11: on a cache miss where the engine does not raise, the call returns the
\* engine's (item_id, score) list in the engine's order, restricted to the
\* items whose metadata lookup succeeds, each with recommendation_score equal
\* to its engine score; failed lookups raise nothing, and the returned list is
\* the one stored in the cache.
C11_Enrichment ==
    [][(calls' = calls + 1 /\ ~svc'.hit /\ ~svc'.engine_raised) =>
          LET key == make_key(svc'.user, svc'.ct, svc'.n)
          IN  /\ ~svc'.raised
              /\ svc'.result = ScoredDetails(ret'.res.value, svc'.found)
              /\ key \in DOMAIN memory_cache'
              /\ memory_cache'[key] = svc'.result]_vars

\* the engine gave two items, one of them has no metadata
C11_Witness ==
    /\ Served /\ ~svc.hit /\ ~svc.engine_raised
    /\ ret.op = "get_recommendations"
    /\ Len(ret.res.value) = 2
    /\ Len(svc.result) = 1


-----------------------------------------------------------------------------
(* The training entry points of RecommendationService, called one after     *)
(* the other (management command, training view)                            *)

\* the order of the dict literal of train_all_models
TypeOrder == <<"movie", "manga", "anime">>

\* what train_<type>_model passes to engine.train_model
TrainArgs == [n_components |-> 30, epochs |-> 30]

TrainReturn_Optimistic(interactions, engine) == interactions # <<>>

\* what train_<type>_model returns: False for no interactions, False from
\* the except branch, True otherwise
TrainReturn(interactions, engine) ==
    IF interactions = <<>> THEN FALSE ELSE ~engine.raised

NextType_StopOnFailure(pc, ok) == IF ok THEN pc + 1 ELSE Len(TypeOrder) + 1

\* train_all_models goes on to the next entry of its dict literal
NextType(pc, ok) == pc + 1

\* one await of train_<content_type>_model() by a request of the given kind;
\* interactions is what the extractor returned
train_type_model(kind, pc, content_type, interactions) ==
    /\ IF interactions = <<>>
       THEN /\ ret' = NoCall
            /\ UNCHANGED <<models, user_id_mappings, item_id_mappings,
                           interaction_matrices, disk, runs>>
       ELSE \E fit_raises \in BOOLEAN :
               train_model(content_type, interactions, fit_raises, 0, FALSE)
    /\ LET called == interactions # <<>>
           ok == TrainReturn(interactions, ret'.res)
           before == IF job.kind = kind /\ ~job.done THEN job ELSE NoJob
       IN  job' = [kind |-> kind,
                   pc |-> NextType(pc, ok),
                   attempts |-> Append(before.attempts, content_type),
                   results |-> Put(before.results, content_type, ok),
                   fetched |-> Len(interactions),
                   engine_calls |-> IF called THEN 1 ELSE 0,
                   engine_raised |-> called /\ ret'.res.raised,
                   hyper |-> IF called THEN TrainArgs ELSE NoJob.hyper,
                   raised |-> FALSE,
                   done |-> kind = "single" \/ NextType(pc, ok) > Len(TypeOrder)]

trainingFrame == <<lightfm_available, tie_break, concVars, cacheVars, serviceVars,
                   cacheApiVars, loopVars>>

\* await service.train_<content_type>_model()
TrainOne ==
    /\ job.kind = "none" \/ job.done
    /\ \E content_type \in ContentTypes, interactions \in ServiceLists \cup {<<>>} :
         train_type_model("single", 0, content_type, interactions)
    /\ UNCHANGED trainingFrame

\* await service.train_all_models(): the next entry of the dict literal
TrainAllStep ==
    /\ \/ job.kind = "all" /\ ~job.done
       \/ job.kind = "none" \/ job.done
    /\ LET pc == IF job.kind = "all" /\ ~job.done THEN job.pc ELSE 1
       IN  \E interactions \in ServiceLists \cup {<<>>} :
              train_type_model("all", pc, TypeOrder[pc], interactions)
    /\ UNCHANGED trainingFrame

InitTrainingSpec ==
    /\ lightfm_available \in BOOLEAN
    /\ tie_break = "first_seen"
    /\ InitEngineState
    /\ InitThreads
    /\ use_django_cache = TRUE
    /\ scope = [types |-> ContentTypes, users |-> Users]
    /\ InitService
    /\ InitCacheApi
    /\ InitTraining
    /\ InitLoop

NextTraining == TrainOne \/ TrainAllStep

SpecTraining == InitTrainingSpec /\ [][NextTraining]_vars

LastAttempt == job.attempts[Len(job.attempts)]

\* C12: train_<type>_model returns false without calling the engine when the
\* extractor returns no interactions, returns false when the engine raises,
\* never lets an exception out; otherwise it calls engine.train_model once
\* with n_components=30 and epochs=30 and returns true.
C12_TrainReturn ==
    job.kind # "none" =>
        /\ ~job.raised
        /\ job.fetched = 0 => (~job.results[LastAttempt] /\ job.engine_calls = 0)
        /\ job.fetched > 0 =>
              /\ job.engine_calls = 1
              /\ job.hyper.n_components = 30 /\ job.hyper.epochs = 30
              /\ job.results[LastAttempt] = ~job.engine_raised

\* the engine raised inside train_<type>_model and the caller got False
C12_Witness ==
    job.kind = "single" /\ job.engine_raised /\ ~job.results[LastAttempt] /\ ~job.raised

\* C13: train_all_models attempts movie, manga and anime in that order and
\* returns a map with exactly these three keys; a type that fails or is
\* skipped does not keep the later types from being trained.
C13_TrainAll ==
    job.kind = "all" =>
        /\ job.attempts = SubSeq(TypeOrder, 1, Len(job.attempts))
        /\ job.done => (job.attempts = TypeOrder /\ DOMAIN job.results = ContentTypes)

\* movie failed, manga was trained all the same
C13_Witness ==
    /\ job.kind = "all" /\ job.done
    /\ ~job.results["movie"]
    /\ job.results["manga"]


-----------------------------------------------------------------------------
(* Properties of train_model on the engine's stored state *)

\* a call of train_model has just returned or raised
TrainModelStep == ret.op = "none" /\ ret'.op = "train_model"

storedParts == <<models, user_id_mappings, item_id_mappings, interaction_matrices>>

\* C14: when train_model fails after the matrix was built (fit raises) for a
\* content type that has a snapshot, the model, matrix, user_map and
\* item_map of that type are still those of the previous snapshot.
C14_FailedRetrainKeepsSnapshot ==
    [][(TrainModelStep /\ ret'.res.raised /\ models[ret'.ct].kind = "model")
          => UNCHANGED storedParts]_vars

\* C15: train_model([], type) leaves the stored model, matrix or stored
\* triples and maps of that type as they were, with and without the
\* factorization library.
C15_EmptyTrainingIsNoOp ==
    [][(TrainModelStep /\ ret'.n = 0) => UNCHANGED storedParts]_vars


-----------------------------------------------------------------------------
(* The views' coroutines: TrainRecommendationModels.post awaits the        *)
(* service's training coroutine, GetRecommendationsByType.get awaits a     *)
(* handler.  settings.py names both a WSGI and an ASGI application: under  *)
(* ASGI the coroutines of one process share an event loop and change over  *)
(* at an await only; under WSGI every request has a thread of its own.     *)

Deployments == {"event_loop", "threads"}

\* the two training requests and the recommendation request
Trainers == {"t1", "t2"}
Getter == "g"

\* a coroutine can take its next step: an event loop runs nothing else
\* while one coroutine is inside a synchronous call
Runnable(t) == deployment = "threads" \/ busy = ""

asyncFrame == <<concVars, configVars, serviceVars, cacheApiVars, trainingVars, deployment>>

\* the server accepts a request
RequestArrives ==
    /\ \E t \in TaskIds :
         /\ tasks[t].pc = "idle"
         /\ tasks' = [tasks EXCEPT ![t].pc = "pending"]
    /\ UNCHANGED <<engineVars, memory_cache, django_cache, busy, asyncFrame>>

\* train_<type>_model up to `await self.data_service.get_<type>_interactions()`
TrainStart ==
    /\ \E t \in Trainers :
         /\ tasks[t].pc = "pending"
         /\ Runnable(t)
         /\ tasks' = [tasks EXCEPT ![t].pc = "fetching"]
    /\ UNCHANGED <<engineVars, memory_cache, django_cache, busy, asyncFrame>>

\* the await returns; `if not interactions: return False`, otherwise the
\* coroutine enters self.engine.train_model, a synchronous call
FetchReturns ==
    /\ \E t \in Trainers, interactions \in ServiceLists \cup {<<>>} :
         /\ tasks[t].pc = "fetching"
         /\ Runnable(t)
         /\ IF interactions = <<>>
            THEN /\ tasks' = [tasks EXCEPT ![t].pc = "done"]
                 /\ UNCHANGED busy
            ELSE /\ tasks' = [tasks EXCEPT ![t].pc = "training", ![t].data = interactions]
                 /\ busy' = IF deployment = "event_loop" THEN t ELSE busy
    /\ UNCHANGED <<engineVars, memory_cache, django_cache, asyncFrame>>

\* self.engine.train_model returns or raises; the coroutine returns
TrainReturns ==
    /\ \E t \in Trainers, content_type \in scope.types, fit_raises \in BOOLEAN :
         /\ tasks[t].pc = "training"
         /\ deployment = "threads" \/ busy = t
         /\ train_model(content_type, tasks[t].data, fit_raises, 0, FALSE)
         /\ tasks' = [tasks EXCEPT ![t].pc = "done", ![t].res = ret'.res]
    /\ busy' = ""
    /\ UNCHANGED <<lightfm_available, tie_break, memory_cache, django_cache, asyncFrame>>

\* get_<type>_recommendations up to its first await: the cache lookup of the
\* wrapper and, on a miss, self.engine.get_recommendations
ServeBegin ==
    /\ tasks[Getter].pc = "pending"
    /\ Runnable(Getter)
    /\ \E content_type \in scope.types, user_id \in scope.users :
         LET cached_result == cache_get(user_id, content_type, MaxN, FALSE)
         IN  IF ~cached_result.is_none
             THEN /\ tasks' = [tasks EXCEPT ![Getter].pc = "done",
                                            ![Getter].data = cached_result.list]
                  /\ UNCHANGED engineVars
             ELSE /\ \E scores \in ServiceScoreArrays :
                       get_recommendations(content_type, user_id, MaxN, TRUE, scores, 0)
                  /\ tasks' = [tasks EXCEPT ![Getter].pc = "enriching",
                                            ![Getter].res = ret'.res]
                  /\ UNCHANGED <<lightfm_available, tie_break, disk, runs>>
    /\ UNCHANGED <<memory_cache, django_cache, busy, asyncFrame>>

\* the awaited lookups return; the wrapper stores the list and returns it
ServeEnd ==
    /\ tasks[Getter].pc = "enriching"
    /\ Runnable(Getter)
    /\ \E content_type \in scope.types, user_id \in scope.users :
         LET engine == tasks[Getter].res
             lookups == [i \in (IF engine.raised THEN {} ELSE Returns(engine.value)) |-> "found"]
             result == Handler(content_type, engine, MaxN, lookups, FALSE)
         IN  /\ cache_set(user_id, content_type, MaxN, result.value, FALSE)
             /\ tasks' = [tasks EXCEPT ![Getter].pc = "done", ![Getter].data = result.value]
    /\ UNCHANGED <<engineVars, busy, asyncFrame>>

InitAsync ==
    /\ lightfm_available = TRUE
    /\ tie_break = "first_seen"
    /\ InitEngineState
    /\ InitThreads
    /\ use_django_cache = FALSE
    /\ scope \in Scopes
    /\ InitService
    /\ InitCacheApi
    /\ InitTraining
    /\ deployment \in Deployments
    /\ tasks = [t \in TaskIds |-> [pc |-> "idle", data |-> <<>>, res |-> NoCall.res]]
    /\ busy = ""

NextAsync == RequestArrives \/ TrainStart \/ FetchReturns \/ TrainReturns \/ ServeBegin \/ ServeEnd

SpecAsync == InitAsync /\ [][NextAsync]_vars

\* the training requests that have begun and not returned
InFlight == {t \in Trainers : tasks[t].pc \in {"fetching", "training"}}

\* C16: at most one training run of a content type is in flight at any
\* moment (both training requests are for the content type of the scope)
C16_OneTrainingInFlight == Cardinality(InFlight) <= 1

\* C17: while a training run is inside the engine, a recommendation request
\* that has arrived can take its next step (Runnable is the guard of
\* ServeBegin and of ServeEnd), so it completes without waiting for training
C17_ServingNotBlocked ==
    ((\E t \in Trainers : tasks[t].pc = "training") /\ tasks[Getter].pc \in {"pending", "enriching"})
        => Runnable(Getter)


-----------------------------------------------------------------------------
(* RecommendationCache called directly: set, get, invalidate, clear_all,   *)
(* with the shared tier failing call by call and the ttl of a key running  *)
(* out                                                                     *)

MaxCacheOps == 4

\* the lists given to set
CacheValues == {<<Detail("i1")>>, <<Detail("i2")>>}

\* the callers and content types the cache is called with
CacheUsers == Users
CacheTypes == {"movie", "manga"}

cacheFrame == <<engineVars, concVars, configVars, svc, pending_invalidations, quiet,
                trainingVars, loopVars>>

\* cache.set(user_id, content_type, n, value); the ttl of the key starts anew
CacheSet ==
    /\ calls < MaxCacheOps
    /\ calls' = calls + 1
    /\ \E user_id \in CacheUsers, content_type \in CacheTypes, value \in CacheValues,
          set_fails \in SharedFaults :
         LET key == make_key(user_id, content_type, MaxN)
         IN  /\ cache_set(user_id, content_type, MaxN, value, set_fails)
             /\ last_set' = Put(last_set, key, value)
             /\ stale' = stale \ {key}
             /\ cop' = [NoCacheOp EXCEPT !.op = "set", !.user = user_id, !.ct = content_type,
                                         !.n = MaxN, !.list = value]
    /\ UNCHANGED cacheFrame

\* cache.get(user_id, content_type, n): cop keeps what it returned and what
\* was known about the key when it was called
CacheGet ==
    /\ calls < MaxCacheOps
    /\ calls' = calls + 1
    /\ \E user_id \in CacheUsers, content_type \in CacheTypes, get_fails \in SharedFaults :
         LET key == make_key(user_id, content_type, MaxN)
             result == cache_get(user_id, content_type, MaxN, get_fails)
         IN  cop' = [NoCacheOp EXCEPT !.op = "get", !.user = user_id, !.ct = content_type,
                                      !.n = MaxN,
                                      !.hit = ~result.is_none,
                                      !.list = result.list,
                                      !.was_stale = key \in stale,
                                      !.was_set = key \in DOMAIN last_set,
                                      !.expected = IF key \in DOMAIN last_set
                                                   THEN last_set[key] ELSE <<>>]
    /\ UNCHANGED <<memory_cache, django_cache, last_set, stale, cacheFrame>>

\* cache.invalidate(user_id, content_type); "" is None.  cop keeps the local
\* tier as it was before the call
CacheInvalidate ==
    /\ calls < MaxCacheOps
    /\ calls' = calls + 1
    /\ \E user_id \in CacheUsers, content_type \in CacheTypes \cup {""} :
         /\ cache_invalidate(user_id, content_type)
         /\ cop' = [NoCacheOp EXCEPT !.op = "invalidate", !.user = user_id, !.ct = content_type,
                                     !.before = memory_cache]
    /\ last_set' = EmptyCache
    /\ UNCHANGED <<stale, cacheFrame>>

\* cache.clear_all()
CacheClearAll ==
    /\ calls < MaxCacheOps
    /\ calls' = calls + 1
    /\ cache_clear_all
    /\ cop' = [NoCacheOp EXCEPT !.op = "clear_all", !.before = memory_cache]
    /\ last_set' = EmptyCache
    /\ UNCHANGED <<stale, cacheFrame>>

\* ttl seconds pass after the last write of a key: the shared tier drops the
\* entry (cache.set was given the ttl); memory_cache[key] was stored without
\* any expiry and nothing removes it
TtlElapses ==
    /\ \E key \in (DOMAIN memory_cache \cup DOMAIN django_cache) \ stale :
         /\ stale' = stale \cup {key}
         /\ django_cache' = Without(django_cache, {key})
    /\ UNCHANGED <<memory_cache, cop, last_set, calls, cacheFrame>>

InitCache ==
    /\ lightfm_available = TRUE
    /\ tie_break = "first_seen"
    /\ InitEngineState
    /\ InitThreads
    /\ use_django_cache \in BOOLEAN
    /\ scope = [types |-> CacheTypes, users |-> CacheUsers]
    /\ InitService
    /\ InitCacheApi
    /\ InitTraining
    /\ InitLoop

NextCache == CacheSet \/ CacheGet \/ CacheInvalidate \/ CacheClearAll \/ TtlElapses

SpecCache == InitCache /\ [][NextCache]_vars

\* C18: a get of a key that was set, with no set of that key and no
\* invalidation since, returns the list last given to set, whatever calls of
\* the shared tier failed
C18_GetReturnsLastSet ==
    (cop.op = "get" /\ cop.was_set) => (cop.hit /\ cop.list = cop.expected)

\* the arguments a key was made from
KeyArgs(key) == {a \in CacheUsers \X CacheTypes \X {MaxN} : make_key(a[1], a[2], a[3]) = key}

\* C19: invalidate(user_id, content_type) removes from the local tier only
\* entries of that user and, when content_type is given, only of that type
C19_InvalidateOnlyTarget ==
    cop.op = "invalidate" =>
        \A key \in DOMAIN cop.before \ DOMAIN memory_cache :
            \E a \in KeyArgs(key) : /\ a[1] = cop.user
                                    /\ cop.ct \in {"", a[2]}

\* C20: a get of a key whose ttl has run out since it was written is a miss
C20_NoServeAfterTtl ==
    (cop.op = "get" /\ cop.was_stale) => ~cop.hit


-----------------------------------------------------------------------------
(* Popularity-only capability *)

\* C21: without the factorization library, train_model stores the given
\* triples without raising, and get_recommendations for any user and n does
\* not raise and returns what get_popular_items returns for that n: the
\* first n items by summed weight over the stored triples.
C21_PopularityOnly ==
    ~lightfm_available =>
        /\ ret.op = "train_model" =>
              /\ ~ret.res.raised
              /\ interaction_matrices[ret.ct].kind = "list"
              /\ Len(interaction_matrices[ret.ct].data) = ret.n
              /\ models[ret.ct] = NoPart
        /\ ret.op = "get_recommendations" =>
              /\ ~ret.res.raised
              /\ ret.res.value =
                   PopularItems(lightfm_available, tie_break, interaction_matrices[ret.ct],
                                item_id_mappings[ret.ct], ret.n, "popular").value
              /\ IsPopularPrefix(ret.res.value, interaction_matrices[ret.ct].data, ret.n)

\* C21 witness: the item seen second has the larger summed weight and is
\* returned first.
C21_Witness ==
    /\ ~lightfm_available
    /\ ret.op = "get_recommendations"
    /\ Len(ret.res.value) = 2
    /\ ret.res.value[1][1] = "i2"
    /\ interaction_matrices[ret.ct].data[1][2] = "i1"


-----------------------------------------------------------------------------
(* The engine and its model directory across restarts: joblib.dump and      *)
(* joblib.load can fail file by file, and a new process starts with empty   *)
(* dictionaries and the files the previous one left                         *)

\* the position of the dump or load that fails (0: none)
FaultPositions == 0..Len(BlobOrder)

\* train_model, with save_model failing at any of its four dumps
PersistTrain ==
    \E ct \in EngineTypes, L \in ServiceLists, fit_raises \in BOOLEAN,
       dump_fault \in FaultPositions, torn \in BOOLEAN :
        /\ ret = NoCall
        /\ torn => dump_fault # 0
        /\ train_model(ct, L, fit_raises, dump_fault, torn)
        /\ UNCHANGED <<lightfm_available, tie_break, nonEngineVars>>

\* engine.load_model(content_type) -> bool
LoadModel ==
    \E ct \in EngineTypes, io \in FaultPositions :
        LET loaded == load_model(Mem(ct), disk[ct], io)
        IN  /\ ret = NoCall
            /\ models' = [models EXCEPT ![ct] = loaded.mem.model]
            /\ user_id_mappings' = [user_id_mappings EXCEPT ![ct] = loaded.mem.user_map]
            /\ item_id_mappings' = [item_id_mappings EXCEPT ![ct] = loaded.mem.item_map]
            /\ interaction_matrices' = [interaction_matrices EXCEPT ![ct] = loaded.mem.matrix]
            /\ ret' = Call("load_model", ct, "", 0, FALSE,
                           Returned(<<>>, IF loaded.ok THEN "loaded" ELSE "load_failed"))
            /\ UNCHANGED <<lightfm_available, tie_break, disk, runs, nonEngineVars>>

\* get_recommendations(user_id, content_type, n), the load_model it calls
\* failing at any of its reads
PersistGetRecommendations ==
    \E ct \in EngineTypes, u \in Users, scores \in ServiceScoreArrays, io \in FaultPositions :
        /\ ret = NoCall
        /\ get_recommendations(ct, u, MaxN, TRUE, scores, io)
        /\ UNCHANGED <<lightfm_available, tie_break, disk, runs, nonEngineVars>>

\* get_popular_items(content_type, n)
PersistGetPopularItems ==
    \E ct \in EngineTypes :
        /\ ret = NoCall
        /\ get_popular_items(ct, MaxN)
        /\ UNCHANGED <<lightfm_available, tie_break, disk, runs, nonEngineVars>>

\* get_similar_items(item_id, content_type, n)
PersistGetSimilarItems ==
    \E ct \in EngineTypes, i \in Items, sims \in ServiceScoreArrays :
        /\ ret = NoCall
        /\ get_similar_items(ct, i, MaxN, sims)
        /\ UNCHANGED <<lightfm_available, tie_break, disk, runs, nonEngineVars>>

\* the process is restarted: RecommendationEngine.__init__ starts with
\* empty dictionaries, model_dir keeps its files
Restart ==
    /\ ret = NoCall
    /\ \E ct \in EngineTypes : Mem(ct) # NoFiles
    /\ models' = [ct \in ContentTypes |-> NoPart]
    /\ user_id_mappings' = [ct \in ContentTypes |-> NoPart]
    /\ item_id_mappings' = [ct \in ContentTypes |-> NoPart]
    /\ interaction_matrices' = [ct \in ContentTypes |-> NoPart]
    /\ UNCHANGED <<lightfm_available, tie_break, disk, runs, ret, nonEngineVars>>

InitPersist ==
    /\ lightfm_available = TRUE
    /\ tie_break = "first_seen"
    /\ InitEngineState
    /\ InitThreads
    /\ use_django_cache = TRUE
    /\ scope = [types |-> ContentTypes, users |-> Users]
    /\ InitService
    /\ InitCacheApi
    /\ InitTraining
    /\ InitLoop

NextPersist ==
    \/ PersistTrain \/ LoadModel \/ PersistGetRecommendations \/ PersistGetPopularItems
    \/ PersistGetSimilarItems \/ Restart \/ Return

SpecPersist == InitPersist /\ [][NextPersist]_vars

\* a call of load_model (not the one inside get_recommendations)
LoadModelStep == ret.op = "none" /\ ret'.op = "load_model"

\* C22: a load_model that returns false leaves the model, user_map, item_map
\* and matrix of the content type as they were before the call, also when
\* it fails after some of the four blobs were read.
C22_FailedLoadKeepsMemory ==
    [][(LoadModelStep /\ ret'.res.path = "load_failed") => UNCHANGED storedParts]_vars

\* C23: a load_model that returns true installs a model, user_map, item_map
\* and matrix written by the same training run.
C23_LoadedAsUnit ==
    (ret.op = "load_model" /\ ret.res.path = "loaded") =>
        \A b \in Range(BlobOrder) : Mem(ret.ct)[b].run = Mem(ret.ct).model.run


\* the stored matrix of a content type has one row per entry of its
\* user_map and one column per entry of its item_map
ShapeMatchesMaps(ct) ==
    interaction_matrices[ct].kind = "csr" =>
        MatrixOf(interaction_matrices[ct]).shape =
            <<Len(UserMapOf(user_id_mappings[ct])), Len(ItemMapOf(item_id_mappings[ct]))>>

\* the last call was a serving call that left with an IndexError or
\* KeyError: it indexed the model, the matrix or the reverse item map with
\* an index that one of them does not have
IndexedOutOfRange ==
    /\ ret.op \in {"get_recommendations", "get_popular_items", "get_similar_items"}
    /\ ret.res.raised

\* C24: in every reachable state the stored matrix of every content type
\* has |user_map| rows and |item_map| columns, and no serving call indexes
\* the matrix or the model out of the corresponding map.
C24_ShapeAndIndexing ==
    /\ \A ct \in EngineTypes : ShapeMatchesMaps(ct)
    /\ ~IndexedOutOfRange


\* a call of get_recommendations, get_popular_items or get_similar_items
ServingStep ==
    /\ ret.op = "none"
    /\ ret'.op \in {"get_recommendations", "get_popular_items", "get_similar_items"}

\* C25: get_recommendations, get_popular_items and get_similar_items leave
\* the model, matrix, user_map and item_map of every content type as they
\* are.
C25_ServingIsReadOnly == [][ServingStep => UNCHANGED storedParts]_vars


-----------------------------------------------------------------------------
(* create_interaction_matrix, on the lists train_model is given *)

\* position of the first occurrence of x in the sequence s
FirstAt(s, x) == CHOOSE k \in DOMAIN s : s[k] = x /\ \A j \in 1..(k - 1) : s[j] # x

\* map lists the distinct values of ids once each, in order of first
\* appearance (position k stands for index k - 1)
IsFirstSeenIndex(map, ids) ==
    /\ Range(map) = Range(ids)
    /\ \A j, k \in DOMAIN map : map[j] = map[k] => j = k
    /\ \A j, k \in DOMAIN map : j < k => FirstAt(ids, map[j]) < FirstAt(ids, map[k])

\* matrix[r, c]
Entry(m, r, c) == IF <<r, c>> \in DOMAIN m.data THEN m.data[<<r, c>>] ELSE 0

\* what create_interaction_matrix returns for L is as C26 says
MatrixBuiltRight(L) ==
    LET built == create_interaction_matrix(L)
        user_map == built.user_id_map
        item_map == built.item_id_map
    IN  /\ IsFirstSeenIndex(user_map, [k \in DOMAIN L |-> L[k][1]])
        /\ IsFirstSeenIndex(item_map, [k \in DOMAIN L |-> L[k][2]])
        /\ built.shape = <<Len(user_map), Len(item_map)>>
        /\ \A rc \in DOMAIN built.data : rc[1] \in DOMAIN user_map /\ rc[2] \in DOMAIN item_map
        /\ \A r \in DOMAIN user_map, c \in DOMAIN item_map :
              Entry(built, r, c) =
                 SeqSum([k \in DOMAIN L |->
                           IF L[k][1] = user_map[r] /\ L[k][2] = item_map[c] THEN L[k][3] ELSE 0])

\* C26: for every non-empty list of triples, create_interaction_matrix
\* returns maps that index the users and the items in order of first
\* appearance, and a matrix whose entry at (user_map[u], item_map[i]) is the
\* summed weight of the triples of u and i, 0 when there is none.
C26_MatrixBuild ==
    \A ct \in EngineTypes :
        (interaction_matrices[ct].kind = "csr" /\ interaction_matrices[ct].data # <<>>)
            => MatrixBuiltRight(interaction_matrices[ct].data)

\* C26 witness: a matrix built from a list that has the same (user, item)
\* twice, a second user, and a coordinate with no triple.
C26_Witness ==
    \E ct \in EngineTypes :
        LET L == interaction_matrices[ct].data
            built == create_interaction_matrix(L)
        IN  /\ interaction_matrices[ct].kind = "csr"
            /\ Len(L) = 3
            /\ L[1] = L[3]
            /\ L[2][1] # L[1][1]
            /\ Cardinality(DOMAIN built.data) < built.shape[1] * built.shape[2]


-----------------------------------------------------------------------------
(* What the return value of train_<type>_model says about the engine *)

\* a call of train_<type>_model (alone or from train_all_models) returns
TrainTypeStep == job' # job

\* C30: train_<type>_model returns true exactly when the call installed a
\* new snapshot (or new stored triples) for the content type; when it
\* returns false the in-memory state of the content type is as before.
C30_ReturnTellsInstalled ==
    [][TrainTypeStep =>
          LET ct == job'.attempts[Len(job'.attempts)]
              installed == /\ runs' = runs + 1
                           /\ interaction_matrices'[ct].run = runs'
                           /\ lightfm_available =>
                                 /\ models'[ct].run = runs'
                                 /\ user_id_mappings'[ct].run = runs'
                                 /\ item_id_mappings'[ct].run = runs'
              untouched == /\ models'[ct] = models[ct]
                           /\ user_id_mappings'[ct] = user_id_mappings[ct]
                           /\ item_id_mappings'[ct] = item_id_mappings[ct]
                           /\ interaction_matrices'[ct] = interaction_matrices[ct]
          IN  IF job'.results[ct] THEN installed ELSE untouched]_vars


-----------------------------------------------------------------------------
(* Retraining and the cache *)

FailurePathOrEmpty == svc.op = "get" /\ ~svc.hit /\ (svc.engine_raised \/ svc.result = <<>>)

\* C29: a list produced by the failure path, or an empty result, is cached
\* like any other: the next call with the same user_id and n (no invalidate
\* or clear_all in between) returns that list from the cache and does not
\* call the engine again.
C29_FailureResultCached ==
    [][(/\ calls' = calls + 1
        /\ FailurePathOrEmpty
        /\ quiet
        /\ svc'.user = svc.user /\ svc'.ct = svc.ct /\ svc'.n = svc.n) =>
             /\ svc'.hit
             /\ svc'.result = svc.result
             /\ svc'.engine_calls = 0]_vars


-----------------------------------------------------------------------------
(* Two get_<type>_recommendations requests of one user, an invalidate of   *)
(* that user and a retrain, interleaved at the awaits of the wrapper and   *)
(* the handler; the local tier alone is in use                             *)

RaceTasks == {"g", "h"}

\* a request that has not arrived: raced is set when invalidate returns
\* while the request is computing, late when the request starts after a
\* raced one has finished
NoRequest == [pc |-> "idle", data |-> <<>>, res |-> NoCall.res,
              hit |-> FALSE, raced |-> FALSE, late |-> FALSE]

raceFrame == <<asyncFrame, busy>>

\* cached_recommendation.wrapper up to the first await of the handler: the
\* cache lookup and, on a miss, self.engine.get_recommendations
RaceBegin ==
    /\ \E t \in RaceTasks, content_type \in scope.types, user_id \in scope.users :
         LET cached_result == cache_get(user_id, content_type, MaxN, FALSE)
             late == \E o \in RaceTasks : tasks[o].pc = "done" /\ tasks[o].raced
         IN  /\ tasks[t].pc = "idle"
             /\ IF ~cached_result.is_none
                THEN /\ tasks' = [tasks EXCEPT ![t].pc = "done", ![t].hit = TRUE,
                                               ![t].data = cached_result.list,
                                               ![t].late = late]
                     /\ UNCHANGED engineVars
                ELSE /\ \E scores \in ServiceScoreArrays :
                          get_recommendations(content_type, user_id, MaxN, TRUE, scores, 0)
                     /\ tasks' = [tasks EXCEPT ![t].pc = "computing", ![t].res = ret'.res,
                                               ![t].late = late]
                     /\ UNCHANGED <<lightfm_available, tie_break, disk, runs>>
    /\ UNCHANGED <<memory_cache, django_cache, raceFrame>>

\* the awaited lookups return; the wrapper stores the list and returns it
RaceEnd ==
    /\ \E t \in RaceTasks, content_type \in scope.types, user_id \in scope.users :
         LET engine == tasks[t].res
             lookups == [i \in (IF engine.raised THEN {} ELSE Returns(engine.value)) |-> "found"]
             result == Handler(content_type, engine, MaxN, lookups, FALSE)
         IN  /\ tasks[t].pc = "computing"
             /\ cache_set(user_id, content_type, MaxN, result.value, FALSE)
             /\ tasks' = [tasks EXCEPT ![t].pc = "done", ![t].data = result.value]
    /\ UNCHANGED <<engineVars, raceFrame>>

\* get_recommendation_cache().invalidate(user_id) runs and returns
RaceInvalidate ==
    /\ \E user_id \in scope.users : cache_invalidate(user_id, "")
    /\ tasks' = [t \in RaceTasks |->
                   IF tasks[t].pc = "computing" THEN [tasks[t] EXCEPT !.raced = TRUE]
                   ELSE tasks[t]]
    /\ UNCHANGED <<engineVars, raceFrame>>

\* await service.train_<content_type>_model() with interactions to train on
RaceTrain ==
    /\ \E content_type \in scope.types, interactions \in ServiceLists, fit_raises \in BOOLEAN :
         train_model(content_type, interactions, fit_raises, 0, FALSE)
    /\ UNCHANGED <<lightfm_available, tie_break, memory_cache, django_cache, tasks, raceFrame>>

InitRace ==
    /\ lightfm_available = TRUE
    /\ tie_break = "first_seen"
    /\ InitEngineState
    /\ InitThreads
    /\ use_django_cache = FALSE
    /\ scope \in Scopes
    /\ InitService
    /\ InitCacheApi
    /\ InitTraining
    /\ deployment = "event_loop"
    /\ tasks = [t \in RaceTasks |-> NoRequest]
    /\ busy = ""

NextRace == RaceBegin \/ RaceEnd \/ RaceInvalidate \/ RaceTrain

SpecRace == InitRace /\ [][NextRace]_vars

\* C27: a call that starts after invalidate(user_id) returned and after the
\* call that was computing during the invalidate finished is a cache miss.
C27_NoStaleStoreAfterInvalidate ==
    \A t \in RaceTasks : tasks[t].late => ~tasks[t].hit

=============================================================================
